---- MODULE Spec2Model ----
(***************************************************************************)
(* paperless-llm: the document-processing pipeline of src/main.rs.         *)
(*                                                                         *)
(* Text is modelled as a sequence of one-character strings, so that        *)
(* str::lines, str::parse::<f32> and format!("{:.2}") are computed and     *)
(* not assumed.                                                            *)
(***************************************************************************)
EXTENDS Integers, Sequences, FiniteSets, TLC

(***************************************************************************)
(* Bounds of the model                                                     *)
(***************************************************************************)
\* longest enumerated model reply handed to Output::from_str
MaxReplyLen == 4

(***************************************************************************)
(* Text helpers                                                            *)
(***************************************************************************)
NL == "\n"
CR == "\r"

Digits == {"0", "1", "2", "3", "4", "5", "6", "7", "8", "9"}

DigitVal(c) ==
    CASE c = "0" -> 0 [] c = "1" -> 1 [] c = "2" -> 2 [] c = "3" -> 3
      [] c = "4" -> 4 [] c = "5" -> 5 [] c = "6" -> 6 [] c = "7" -> 7
      [] c = "8" -> 8 [] c = "9" -> 9

\* ASCII case folding of the letters that matter to the float parser
Lower(c) ==
    CASE c = "I" -> "i" [] c = "N" -> "n" [] c = "F" -> "f" [] c = "A" -> "a"
      [] c = "T" -> "t" [] c = "Y" -> "y" [] c = "E" -> "e" [] OTHER -> c

LowerText(t) == [i \in 1..Len(t) |-> Lower(t[i])]

\* all texts over alphabet A of length at most n
TextsUpTo(A, n) == UNION {[1..k -> A] : k \in 0..n}

(***************************************************************************)
(* str::lines (main.rs:121): split after every "\n", drop that "\n" and a  *)
(* "\r" right before it; a text ending in "\n" has no empty last line.     *)
(***************************************************************************)
FirstNewline(t) ==
    IF \E i \in 1..Len(t) : t[i] = NL
    THEN CHOOSE i \in 1..Len(t) : t[i] = NL /\ \A j \in 1..(i-1) : t[j] # NL
    ELSE 0

RECURSIVE SplitInclusive(_)
SplitInclusive(t) ==
    IF t = <<>> THEN <<>>
    ELSE LET i == FirstNewline(t)
         IN  IF i = 0 THEN <<t>>
             ELSE <<SubSeq(t, 1, i)>> \o SplitInclusive(SubSeq(t, i + 1, Len(t)))

StripLineEnding(piece) ==
    IF Len(piece) > 0 /\ piece[Len(piece)] = NL
    THEN LET l == SubSeq(piece, 1, Len(piece) - 1)
         IN  IF Len(l) > 0 /\ l[Len(l)] = CR THEN SubSeq(l, 1, Len(l) - 1) ELSE l
    ELSE piece

Lines(t) ==
    LET pieces == SplitInclusive(t)
    IN  [i \in 1..Len(pieces) |-> StripLineEnding(pieces[i])]

(***************************************************************************)
(* <f32 as FromStr>::from_str (main.rs:128).  Grammar of core::num:        *)
(*   [+-] ( digits [. digits] | . digits ) [ (e|E) [+-] digits ]           *)
(*   [+-] ( inf | infinity | nan )            (ASCII case-insensitive)     *)
(* The value of a finite literal is kept as mant * 10^exp10.               *)
(***************************************************************************)
NoFloat == [cls |-> "none", neg |-> FALSE, mant |-> 0, exp10 |-> 0]
Finite(neg, mant, exp10) == [cls |-> "finite", neg |-> neg, mant |-> mant, exp10 |-> exp10]
Infinite(neg) == [cls |-> "inf", neg |-> neg, mant |-> 0, exp10 |-> 0]
NaN == [cls |-> "nan", neg |-> FALSE, mant |-> 0, exp10 |-> 0]

\* number of consecutive digits of t starting at position p
RECURSIVE DigitRun(_, _)
DigitRun(t, p) ==
    IF p <= Len(t) /\ t[p] \in Digits THEN 1 + DigitRun(t, p + 1) ELSE 0

\* value of the digits t[p], ..., t[p+n-1]
RECURSIVE DigitsValue(_, _, _)
DigitsValue(t, p, n) ==
    IF n = 0 THEN 0 ELSE DigitsValue(t, p, n - 1) * 10 + DigitVal(t[p + n - 1])

RECURSIVE Pow10(_)
Pow10(n) == IF n = 0 THEN 1 ELSE 10 * Pow10(n - 1)

\* the literal after its sign: a number
ParseNumber(t, neg) ==
    LET n1   == DigitRun(t, 1)
        dot  == (n1 + 1 <= Len(t)) /\ t[n1 + 1] = "."
        n2   == IF dot THEN DigitRun(t, n1 + 2) ELSE 0
        p2   == IF dot THEN n1 + 2 + n2 ELSE n1 + 1
        hasE == p2 <= Len(t) /\ t[p2] \in {"e", "E"}
        sgn  == hasE /\ p2 + 1 <= Len(t) /\ t[p2 + 1] \in {"+", "-"}
        p3   == IF sgn THEN p2 + 2 ELSE p2 + 1
        n3   == IF hasE THEN DigitRun(t, p3) ELSE 0
        end  == IF hasE THEN p3 + n3 ELSE p2
        e    == IF hasE
                THEN (IF sgn /\ t[p2 + 1] = "-" THEN 0 - DigitsValue(t, p3, n3)
                      ELSE DigitsValue(t, p3, n3))
                ELSE 0
        mant == DigitsValue(t, 1, n1) * Pow10(n2) + (IF dot THEN DigitsValue(t, n1 + 2, n2) ELSE 0)
    IN  IF n1 + n2 = 0 \/ (hasE /\ n3 = 0) \/ end # Len(t) + 1
        THEN [ok |-> FALSE, value |-> NoFloat]
        ELSE [ok |-> TRUE, value |-> Finite(neg, mant, e - n2)]

\* the literal after its sign: inf, infinity or nan
ParseInfNan(t, neg) ==
    LET l == LowerText(t)
    IN  IF l = <<"n", "a", "n">> THEN [ok |-> TRUE, value |-> NaN]
        ELSE IF l = <<"i", "n", "f">> \/ l = <<"i", "n", "f", "i", "n", "i", "t", "y">>
             THEN [ok |-> TRUE, value |-> Infinite(neg)]
             ELSE [ok |-> FALSE, value |-> NoFloat]

ParseF32(t) ==
    IF t = <<>> THEN [ok |-> FALSE, value |-> NoFloat]
    ELSE LET signed == t[1] \in {"+", "-"}
             neg    == t[1] = "-"
             rest   == IF signed THEN SubSeq(t, 2, Len(t)) ELSE t
             num    == ParseNumber(rest, neg)
         IN  IF rest = <<>> THEN [ok |-> FALSE, value |-> NoFloat]
             ELSE IF num.ok THEN num ELSE ParseInfNan(rest, neg)

(***************************************************************************)
(* Output::from_str (main.rs:118-132)                                      *)
(***************************************************************************)
NoOutput == [ok |-> FALSE, title |-> <<>>, has_amount |-> FALSE, amount |-> NoFloat]

\* variant: lines.len() >= 2
LineCountAtLeast(n) == n >= 2

\* anyhow::ensure!(lines.len() == 2, ...)
LineCountOk(n) == n = 2

from_str(t) ==
    LET lines == Lines(t)
    IN  IF ~LineCountOk(Len(lines)) THEN NoOutput
        ELSE IF lines[2] = <<"-">>
             THEN [ok |-> TRUE, title |-> lines[1], has_amount |-> FALSE, amount |-> NoFloat]
             ELSE LET f == ParseF32(lines[2])
                  IN  IF f.ok
                      THEN [ok |-> TRUE, title |-> lines[1], has_amount |-> TRUE, amount |-> f.value]
                      ELSE NoOutput

(***************************************************************************)
(* format!("{}{:.2}", currency, amount) (main.rs:151)                      *)
(***************************************************************************)
DigitChar(n) ==
    CASE n = 0 -> "0" [] n = 1 -> "1" [] n = 2 -> "2" [] n = 3 -> "3"
      [] n = 4 -> "4" [] n = 5 -> "5" [] n = 6 -> "6" [] n = 7 -> "7"
      [] n = 8 -> "8" [] n = 9 -> "9"

RECURSIVE NatText(_)
NatText(n) == IF n < 10 THEN <<DigitChar(n)>> ELSE NatText(n \div 10) \o <<DigitChar(n % 10)>>

\* |v| in hundredths, ties to even.  The f32 nearest to the literal is taken
\* to be the literal: exact for the literals enumerated here, whose ties are
\* binary fractions (0.125) and whose other values are no ties.
Hundredths(v) ==
    IF v.exp10 + 2 >= 0 THEN v.mant * Pow10(v.exp10 + 2)
    ELSE LET k == 0 - (v.exp10 + 2)
             q == v.mant \div Pow10(k)
             r == v.mant % Pow10(k)
             half == Pow10(k) \div 2
         IN  IF r > half \/ (r = half /\ q % 2 = 1) THEN q + 1 ELSE q

FormatFixed2(v) ==
    IF v.cls = "nan" THEN <<"N", "a", "N">>
    ELSE IF v.cls = "inf" THEN (IF v.neg THEN <<"-">> ELSE <<>>) \o <<"i", "n", "f">>
    ELSE LET h == Hundredths(v)
         IN  (IF v.neg THEN <<"-">> ELSE <<>>) \o NatText(h \div 100)
               \o <<".", DigitChar((h % 100) \div 10), DigitChar(h % 10)>>

(***************************************************************************)
(* Run parameters (Params, main.rs:39-47 and 239-246)                      *)
(***************************************************************************)
\* params.tag_id: the id the store gives the tag "llm-process"
tag_id == 3
\* params.field_id: the id the store gives the custom field "Amount"
field_id == 9
\* another tag and another custom field of the store
OtherTag == 5
OtherField == 4
\* params.args.currency, default "CHF"
currency == <<"C", "H", "F">>

(***************************************************************************)
(* Patch construction (main.rs:141-161)                                    *)
(***************************************************************************)
NoDoc == [title |-> <<>>, tags |-> <<>>, custom_fields |-> <<>>]

\* variant: no filter before the chain
KeepEveryField(f) == TRUE

\* variant: the filter inverted
KeepAmountField(f) == f.field = field_id

\* .filter(|f| f.field != params.field_id)
KeepField(f) == f.field # field_id

\* variant: the tags are sent as fetched
RetainEveryTag(t) == TRUE

\* d.tags.retain(|t| *t != params.tag_id)
RetainTag(t) == t # tag_id

RECURSIVE FilterFields(_)
FilterFields(fs) ==
    IF fs = <<>> THEN <<>>
    ELSE (IF KeepField(Head(fs)) THEN <<Head(fs)>> ELSE <<>>) \o FilterFields(Tail(fs))

RECURSIVE RetainTags(_)
RetainTags(ts) ==
    IF ts = <<>> THEN <<>>
    ELSE (IF RetainTag(Head(ts)) THEN <<Head(ts)>> ELSE <<>>) \o RetainTags(Tail(ts))

\* variant: the filter applied whether or not an amount was found
PatchFieldsFiltered(doc, output) ==
    FilterFields(doc.custom_fields)
      \o (IF output.has_amount
          THEN <<[field |-> field_id, value |-> currency \o FormatFixed2(output.amount)]>>
          ELSE <<>>)

\* main.rs:144-154
PatchFields(doc, output) ==
    IF output.has_amount
    THEN FilterFields(doc.custom_fields)
           \o <<[field |-> field_id, value |-> currency \o FormatFixed2(output.amount)]>>
    ELSE doc.custom_fields

\* the JSON payload of main.rs:156-160
BuildPatch(doc, output) ==
    [title |-> output.title,
     tags |-> RetainTags(doc.tags),
     custom_fields |-> PatchFields(doc, output)]

\* the store's PATCH of a document: the three fields are replaced (paperless.rs:80-88)
ApplyPatch(doc, patch) ==
    [title |-> patch.title, tags |-> patch.tags, custom_fields |-> patch.custom_fields]

(***************************************************************************)
(* Prompt assembly (main.rs:60-89)                                         *)
(*                                                                         *)
(* A character is a one-character string; characters outside ASCII are     *)
(* written by their code point.  str::len counts UTF-8 bytes;              *)
(* unicode_truncate measures display width.                                *)
(***************************************************************************)
\* e with acute (2 bytes, 1 column), a CJK ideograph (3 bytes, 2 columns),
\* the combining acute accent (2 bytes, 0 columns)
EAcute == "U+00E9"
Ideograph == "U+8A9E"
Combining == "U+0301"

Utf8Len(c) == CASE c = EAcute -> 2 [] c = Ideograph -> 3 [] c = Combining -> 2 [] OTHER -> 1

CharWidth(c) == CASE c = Ideograph -> 2 [] c = Combining -> 0 [] OTHER -> 1

RECURSIVE ByteLen(_)
ByteLen(t) == IF t = <<>> THEN 0 ELSE Utf8Len(Head(t)) + ByteLen(Tail(t))

RECURSIVE TextWidth(_)
TextWidth(t) == IF t = <<>> THEN 0 ELSE CharWidth(Head(t)) + TextWidth(Tail(t))

\* let char_per_token = 2.5 (main.rs:75), as the fraction 5/2
CharPerTokenNum == 5
CharPerTokenDen == 2
\* let max_output_tokens = 50 (main.rs:76)
max_output_tokens == 50

\* (n_ctx * 2.5 - prompt.len() - 50).ceil() as usize (main.rs:77-79); the cast
\* of a negative f32 gives 0
max_doc_size(n, plen) ==
    LET num == CharPerTokenNum * n - CharPerTokenDen * plen - CharPerTokenDen * max_output_tokens
    IN  IF num <= 0 THEN 0 ELSE (num + CharPerTokenDen - 1) \div CharPerTokenDen

\* str::unicode_truncate(w).0: the longest prefix not wider than w columns;
\* characters of no width at the cut are kept
unicode_truncate(t, w) ==
    LET fits == {k \in 0..Len(t) : TextWidth(SubSeq(t, 1, k)) <= w}
    IN  SubSeq(t, 1, CHOOSE k \in fits : \A j \in fits : j <= k)

\* d.content.len() > max_doc_size (main.rs:80)
TooLong(t, m) == ByteLen(t) > m

NoQuery == [sent |-> FALSE, max |-> 0, user |-> <<>>, warned |-> FALSE]

\* main.rs:60-111: the user message of the completion request and the warning
AssemblePrompt(t, n, plen) ==
    LET m == max_doc_size(n, plen)
    IN  IF TooLong(t, m)
        THEN [sent |-> TRUE, max |-> m, user |-> unicode_truncate(t, m), warned |-> TRUE]
        ELSE [sent |-> TRUE, max |-> m, user |-> t, warned |-> FALSE]

(***************************************************************************)
(* State                                                                   *)
(***************************************************************************)
VARIABLES
    \* main_impl and the stream of pipelines
    phase,        \* position of main_impl
    apply,        \* args.apply
    process_all,  \* args.process_all
    startup,      \* answers of the confirmation prompt and of the two lookups
    docs,         \* d: the sorted ids handed to the stream
    next,         \* position of the stream in docs
    st,           \* position of each document's process_document future
    failed,       \* the ids collected so far into `failed`
    store,        \* the documents of the paperless store
    fetched,      \* d of each pipeline: the document as fetched
    patchSent,    \* the patch_document call issued by each pipeline
    res,          \* what each pipeline's own calls returned
    n_ctx,        \* llamacpp.settings.n_ctx
    prompt_len,   \* prompt.len(): bytes of the system message
    query,        \* the completion request issued by each pipeline
    fate,         \* what process_document will return for each id, where fixed in advance
    run,          \* the number of the run, counted from 1
    processed,    \* ids that ended Done in an earlier run with --apply
    \* Output::from_str on its own
    s,            \* the reply text
    parsed,       \* the result of s.parse()
    \* patch construction on its own
    pstage,       \* built / applied / rebuilt
    pdoc,         \* the fetched document
    pout,         \* the parsed output
    patch1,       \* the patch built from pdoc
    pdoc2,        \* the document after the store applied patch1
    patch2,       \* the patch built from pdoc2
    \* prompt assembly on its own
    ptext,        \* d.content
    assembled     \* the user message built from ptext

orchVars == <<phase, apply, process_all, startup, docs, next, st, failed, store,
              fetched, patchSent, res, n_ctx, prompt_len, query, fate,
              run, processed>>
parserVars == <<s, parsed>>
patchVars == <<pstage, pdoc, pout, patch1, pdoc2, patch2>>
promptVars == <<ptext, assembled>>
vars == <<orchVars, parserVars, patchVars, promptVars>>

NoPatch == [title |-> <<>>, tags |-> <<>>, custom_fields |-> <<>>]

(***************************************************************************)
(* Output::from_str on every short reply                                   *)
(***************************************************************************)
ReplyAlphabet == {"a", "n", "1", ".", "-", NL}

SomeTitle == <<"S", "o", "m", "e", " ", "T", "i", "t", "l", "e">>
Invoice42 == <<"I", "n", "v", "o", "i", "c", "e", " ", "4", "2">>

\* the replies of the spec's scenarios and some longer literals
ExampleReplies ==
    { SomeTitle \o <<NL, "-">>,
      SomeTitle \o <<NL, "1", "2", ".", "3", "4">>,
      Invoice42 \o <<NL, "4", "2", ".", "0", "0">>,
      <<"a", NL, "1", "e", "2">>,
      <<"a", NL, "+", ".", "5">>,
      <<"a", NL, "i", "n", "f">>,
      <<"a", NL, "-", "I", "n", "f", "i", "n", "i", "t", "y">>,
      <<"a", NL, "1", CR, NL>>,
      <<"a", NL, "n", NL, "1">> }

ReplyInputs == TextsUpTo(ReplyAlphabet, MaxReplyLen) \cup ExampleReplies

ParserIdle ==
    /\ s = <<>>
    /\ parsed = [done |-> FALSE, out |-> NoOutput]

\* r.content()?.parse() (main.rs:133-136) on the reply s
Parse ==
    /\ ~parsed.done
    /\ parsed' = [done |-> TRUE, out |-> from_str(s)]
    /\ UNCHANGED <<s, orchVars, patchVars, promptVars>>

(***************************************************************************)
(* Patch construction on every small document                              *)
(***************************************************************************)
\* longest tag list and custom-field list of an enumerated document
MaxTags == 2
MaxFields == 2

SeqsUpTo(A, n) == UNION {[1..k -> A] : k \in 0..n}

FieldValues == { <<"x">>, currency \o <<"1", ".", "5", "0">> }
FieldEntries == [field : {field_id, OtherField}, value : FieldValues]

\* the document of the spec's scenario
InvoiceDoc == [title |-> <<"I", "n", "v", "o", "i", "c", "e">>, tags |-> <<tag_id>>,
               custom_fields |-> <<>>]

PatchDocs ==
    [title : {<<"a">>, <<"n">>},
     tags : SeqsUpTo({tag_id, OtherTag}, MaxTags),
     custom_fields : SeqsUpTo(FieldEntries, MaxFields)]
      \cup {InvoiceDoc}

\* the outputs the parser returns for these replies
PatchOutputs ==
    { from_str(r) : r \in { <<"a", NL, "-">>, <<"n", NL, "-">>,
                            <<"a", NL, "1", ".", "5">>, <<"n", NL, "1", ".", "5">>,
                            <<"a", NL, "4", "2", ".", "0", "0">>,
                            <<"n", NL, ".", "1", "2", "5">>,
                            <<"a", NL, "-", "2">>,
                            <<"a", NL, "i", "n", "f">>,
                            Invoice42 \o <<NL, "4", "2", ".", "0", "0">> } }

PatchIdle ==
    /\ pstage = "idle"
    /\ pdoc = NoDoc
    /\ pout = NoOutput
    /\ patch1 = NoPatch
    /\ pdoc2 = NoDoc
    /\ patch2 = NoPatch

\* main.rs:141-160 on the document as fetched
PatchBuild ==
    /\ pstage = "fetched"
    /\ patch1' = BuildPatch(pdoc, pout)
    /\ pstage' = "built"
    /\ UNCHANGED <<pdoc, pout, pdoc2, patch2, orchVars, parserVars, promptVars>>

\* the store replaces the three fields (patch_document, paperless.rs:80-88)
PatchApply ==
    /\ pstage = "built"
    /\ pdoc2' = ApplyPatch(pdoc, patch1)
    /\ pstage' = "applied"
    /\ UNCHANGED <<pdoc, pout, patch1, patch2, orchVars, parserVars, promptVars>>

\* main.rs:141-160 again, on the document the store now holds
PatchRebuild ==
    /\ pstage = "applied"
    /\ patch2' = BuildPatch(pdoc2, pout)
    /\ pstage' = "rebuilt"
    /\ UNCHANGED <<pdoc, pout, patch1, pdoc2, orchVars, parserVars, promptVars>>

\* longest document text and longest system message followed
MaxTextLen == 4
MaxPromptLen == 2

TextAlphabet == {"a", EAcute, Ideograph, Combining}

PromptTexts == UNION { [1..n -> TextAlphabet] : n \in 0..MaxTextLen }

\* context sizes around the point where the budget becomes positive
PromptCtxSizes == {0, 20, 21, 22, 52}

\* main.rs:60-89 on ptext
Assemble ==
    /\ ~assembled.sent
    /\ assembled' = AssemblePrompt(ptext, n_ctx, prompt_len)
    /\ UNCHANGED <<ptext, orchVars, parserVars, patchVars>>

(***************************************************************************)
(* The run: main_impl (main.rs:189-272) and process_document (49-164)      *)
(***************************************************************************)
\* documents of the store in a full run
NumDocs == 3
\* ids handed to the stream when only the fan-out is followed
FanDocs == 11

\* .buffer_unordered(10)
BUFFER == 10

InFlightStages == {"fetch", "completion", "patch"}
Finished == {"Done", "Failed"}

\* the store at the start of a run: tagged, tagged with an amount, untagged
InitialDoc(d) ==
    CASE d % 3 = 1 -> [title |-> <<"a">>, tags |-> <<tag_id>>, custom_fields |-> <<>>]
      [] d % 3 = 2 -> [title |-> <<"n">>, tags |-> <<OtherTag, tag_id>>,
                       custom_fields |-> << [field |-> field_id, value |-> <<"x">>],
                                            [field |-> OtherField, value |-> <<"x">>] >>]
      [] OTHER     -> [title |-> <<"a">>, tags |-> <<OtherTag>>,
                       custom_fields |-> << [field |-> OtherField, value |-> <<"x">>] >>]

\* d.content of the same documents: plain text, text that starts with a mark of
\* no width, wide characters
InitialContent(d) ==
    CASE d % 3 = 1 -> <<"a", "a", "a", "a">>
      [] d % 3 = 2 -> <<Combining, "a">>
      [] OTHER     -> <<Ideograph, Ideograph>>

\* prompt.len() in a full run
RunPromptLen == 2
\* context sizes the server may report (llamacpp.rs:62-65, 85)
CtxSizes == {0, 21, 22}

\* a reply of three lines whose second line is a number
ThreeLines == <<"a", NL, "1", NL, "n">>

\* what the completion endpoint may answer: replies that parse, replies that do not
Replies == { <<"a", NL, "-">>, <<"n", NL, "1", ".", "5">>, ThreeLines, <<"a", NL, "n">> }

Responses ==
    { [kind |-> "err", text |-> <<>>], [kind |-> "nochoice", text |-> <<>>] }
      \cup { [kind |-> "ok", text |-> r] : r \in Replies }

\* the answers followed when runs are repeated
RunResponses ==
    { [kind |-> "err", text |-> <<>>],
      [kind |-> "ok", text |-> <<"a", NL, "-">>],
      [kind |-> "ok", text |-> <<"n", NL, "1", ".", "5">>] }

NoRes == [fetch |-> "none", doc |-> NoDoc, completion |-> "none", text |-> <<>>, patch |-> "none"]
NoCall == [sent |-> FALSE, payload |-> NoPatch]
NoStartup == [confirmation |-> "unasked", field |-> "unasked", tag |-> "unasked"]

RECURSIVE Sort(_)
Sort(S) ==
    IF S = {} THEN <<>>
    ELSE LET m == CHOOSE x \in S : \A y \in S : x <= y
         IN  <<m>> \o Sort(S \ {m})

InFlight(stv) == {d \in DOMAIN stv : stv[d] \in InFlightStages}

\* variant: one slot is always left free
HasFreeSlotShort(n) == n + 1 < BUFFER

\* variant: `<=` for `<`
HasFreeSlotInclusive(n) == n <= BUFFER

\* BufferUnordered: `while in_progress_queue.len() < max` (main.rs:260)
HasFreeSlot(n) == n < BUFFER

\* the stream pulls ids in order and starts their futures while a slot is free;
\* a started future is polled at once and issues its fetch (main.rs:247-260, 52)
RECURSIVE Fill(_, _, _)
Fill(stv, nxt, ds) ==
    IF HasFreeSlot(Cardinality(InFlight(stv))) /\ nxt <= Len(ds)
    THEN Fill([stv EXCEPT ![ds[nxt]] = "fetch"], nxt + 1, ds)
    ELSE [st |-> stv, next |-> nxt]

\* variant: the stream waits for one id more than the source holds
SourceOverrun(stv, nxt, ds) == nxt > Len(ds) + 1 /\ InFlight(stv) = {}

\* variant: collect() returns as soon as the source is exhausted
SourceExhausted(stv, nxt, ds) == nxt > Len(ds)

\* collect() returns when the source is exhausted and no future is left (main.rs:262-263)
StreamFinished(stv, nxt, ds) == nxt > Len(ds) /\ InFlight(stv) = {}

\* variant: the first error ends every other pipeline (a try_ stream)
YieldFailFast(stv, d, status) ==
    IF status = "Failed"
    THEN [e \in DOMAIN stv |-> IF e = d \/ stv[e] \in InFlightStages \cup {"pending"}
                               THEN "Failed" ELSE stv[e]]
    ELSE [stv EXCEPT ![d] = status]

\* the future of document d resolves: only its own slot changes (main.rs:250-258)
Yield(stv, d, status) == [stv EXCEPT ![d] = status]

\* variant: .ok() for .err()
CollectSucceeded(fl, d, status) == IF status = "Done" THEN [fl EXCEPT ![d] = @ + 1] ELSE fl

\* .err().map(|_| d) ... .filter_map(ready).collect() (main.rs:254-262)
Collect(fl, d, status) == IF status = "Failed" THEN [fl EXCEPT ![d] = @ + 1] ELSE fl

\* variant: the answer is not checked
ConfirmIgnored(c) == TRUE

\* anyhow::ensure!(confirmation, "User aborted") (main.rs:198)
ConfirmAccepted(c) == c = "yes"

\* a lookup that found no entry ends the run: .get(..).context(..)? (main.rs:204-213)
LookupOk(r) == r = "found"

\* variant: the patch is sent whatever the flag
IssuesPatchAlways(a) == TRUE

\* if params.args.apply (main.rs:141)
IssuesPatch(a) == a

\* one future resolved: its item is collected and the stream polled again
Resolve(d, status) ==
    LET f == Fill(Yield(st, d, status), next, docs)
    IN  /\ st' = f.st
        /\ next' = f.next
        /\ failed' = Collect(failed, d, status)
        /\ phase' = IF StreamFinished(f.st, f.next, docs) THEN "done" ELSE "run"

OrchIdle ==
    /\ phase = "idle"
    /\ apply = FALSE
    /\ process_all = FALSE
    /\ startup = NoStartup
    /\ docs = <<>>
    /\ next = 1
    /\ st = <<>>
    /\ failed = <<>>
    /\ store = <<>>
    /\ fetched = <<>>
    /\ patchSent = <<>>
    /\ res = <<>>
    /\ query = <<>>
    /\ fate = <<>>
    /\ run = 1
    /\ processed = {}

PromptIdle ==
    /\ n_ctx = 0
    /\ prompt_len = 0
    /\ ptext = <<>>
    /\ assembled = NoQuery

\* main.rs:192-199: the prompt is shown only with --apply; interact()? may fail
Confirm(c) ==
    /\ phase = "start"
    /\ IF apply
       THEN /\ c \in {"yes", "no", "error"}
            /\ startup' = [startup EXCEPT !.confirmation = c]
            /\ phase' = IF ConfirmAccepted(c) THEN "field" ELSE "fatal"
       ELSE /\ c = "unasked"
            /\ phase' = "field"
            /\ UNCHANGED startup
    /\ UNCHANGED <<n_ctx, query>>
    /\ UNCHANGED <<apply, process_all, prompt_len, fate, run, processed, docs, next, st, failed, store, fetched, patchSent, res,
                   parserVars, patchVars, promptVars>>

\* main.rs:204-208
LookupField(r) ==
    /\ phase = "field"
    /\ startup' = [startup EXCEPT !.field = r]
    /\ phase' = IF LookupOk(r) THEN "tag" ELSE "fatal"
    /\ UNCHANGED <<n_ctx, query>>
    /\ UNCHANGED <<apply, process_all, prompt_len, fate, run, processed, docs, next, st, failed, store, fetched, patchSent, res,
                   parserVars, patchVars, promptVars>>

\* main.rs:209-213
LookupTag(r) ==
    /\ phase = "tag"
    /\ startup' = [startup EXCEPT !.tag = r]
    /\ phase' = IF LookupOk(r) THEN "list" ELSE "fatal"
    /\ UNCHANGED <<n_ctx, query>>
    /\ UNCHANGED <<apply, process_all, prompt_len, fate, run, processed, docs, next, st, failed, store, fetched, patchSent, res,
                   parserVars, patchVars, promptVars>>

\* documents_with_tag: the ids of the documents carrying the tag (paperless.rs:76-78)
Tagged(sto) == {d \in DOMAIN sto : \E i \in DOMAIN sto[d].tags : sto[d].tags[i] = tag_id}

\* main.rs:214-220
ListDocuments(ok) ==
    /\ phase = "list"
    /\ IF ok
       THEN LET found == IF process_all THEN DOMAIN store ELSE Tagged(store)
            IN  /\ docs' = Sort(found)
                /\ st' = [d \in DOMAIN store |-> IF d \in found THEN "pending" ELSE "none"]
                /\ phase' = "model"
       ELSE /\ phase' = "fatal"
            /\ UNCHANGED <<docs, st>>
    /\ UNCHANGED <<n_ctx, query>>
    /\ UNCHANGED <<apply, process_all, prompt_len, fate, run, processed, startup, next, failed, store, fetched, patchSent, res,
                   parserVars, patchVars, promptVars>>

\* main.rs:222-263: LlamaCpp::new reads n_ctx from the server's props, models,
\* then the first poll of the stream
SelectModel(ok, n) ==
    /\ phase = "model"
    /\ IF ok
       THEN LET f == Fill(st, next, docs)
            IN  /\ n_ctx' = n
                /\ st' = f.st
                /\ next' = f.next
                /\ phase' = IF StreamFinished(f.st, f.next, docs) THEN "done" ELSE "run"
       ELSE /\ phase' = "fatal"
            /\ UNCHANGED <<n_ctx, st, next>>
    /\ UNCHANGED query
    /\ UNCHANGED <<apply, process_all, prompt_len, fate, run, processed, startup, docs, failed, store, fetched, patchSent, res,
                   parserVars, patchVars, promptVars>>

\* variant: the error of the call is dropped and the function goes on
ContinuesAlways(ok) == TRUE

\* the `?` after an awaited call: the function goes on only with Ok (main.rs:52)
Continues(ok) == ok

\* params.paperless.document(id).await? returns (main.rs:52); on success the
\* prompt is assembled and the completion request is issued (main.rs:60-111)
FetchReturns(d, ok) ==
    /\ phase = "run"
    /\ st[d] = "fetch"
    /\ IF Continues(ok)
       THEN /\ fetched' = [fetched EXCEPT ![d] = store[d]]
            /\ res' = [res EXCEPT ![d].fetch = IF ok THEN "ok" ELSE "err", ![d].doc = store[d]]
            /\ query' = [query EXCEPT ![d] = AssemblePrompt(InitialContent(d), n_ctx, prompt_len)]
            /\ st' = [st EXCEPT ![d] = "completion"]
            /\ UNCHANGED <<phase, next, failed>>
       ELSE /\ res' = [res EXCEPT ![d].fetch = "err"]
            /\ Resolve(d, "Failed")
            /\ UNCHANGED <<fetched, query>>
    /\ UNCHANGED n_ctx
    /\ UNCHANGED <<apply, process_all, prompt_len, fate, run, processed, startup, docs, store, patchSent, parserVars, patchVars, promptVars>>

\* completions(..).await? returns (main.rs:111); the reply is parsed and, in
\* apply mode, the patch is built and patch_document is called (main.rs:133-161)
CompletionReturns(d, resp) ==
    /\ phase = "run"
    /\ st[d] = "completion"
    /\ res' = [res EXCEPT ![d].completion = resp.kind, ![d].text = resp.text]
    /\ LET output == from_str(resp.text)
       IN  IF resp.kind # "ok" \/ ~output.ok
           THEN /\ Resolve(d, "Failed")
                /\ UNCHANGED patchSent
           ELSE IF ~IssuesPatch(apply)
                THEN /\ Resolve(d, "Done")
                     /\ UNCHANGED patchSent
                ELSE /\ patchSent' = [patchSent EXCEPT ![d] =
                                        [sent |-> TRUE, payload |-> BuildPatch(fetched[d], output)]]
                     /\ st' = [st EXCEPT ![d] = "patch"]
                     /\ UNCHANGED <<phase, next, failed>>
    /\ UNCHANGED <<n_ctx, query>>
    /\ UNCHANGED <<apply, process_all, prompt_len, fate, run, processed, startup, docs, store, fetched, parserVars, patchVars, promptVars>>

\* patch_document(..).await? returns (main.rs:158-163); a call that returns an
\* error may or may not have been applied by the store (paperless.rs:44-59)
PatchReturns(d, ok, applied) ==
    /\ phase = "run"
    /\ st[d] = "patch"
    /\ ok => applied
    /\ store' = IF applied THEN [store EXCEPT ![d] = ApplyPatch(@, patchSent[d].payload)]
                ELSE store
    /\ res' = [res EXCEPT ![d].patch = IF ok THEN "ok" ELSE "err"]
    /\ Resolve(d, IF ok THEN "Done" ELSE "Failed")
    /\ UNCHANGED <<n_ctx, query>>
    /\ UNCHANGED <<apply, process_all, prompt_len, fate, run, processed, startup, docs, fetched, patchSent, parserVars, patchVars, promptVars>>

\* the first poll of the stream (main.rs:247-263)
StreamStart ==
    /\ phase = "stream"
    /\ LET f == Fill(st, next, docs)
       IN  /\ st' = f.st
           /\ next' = f.next
           /\ phase' = IF StreamFinished(f.st, f.next, docs) THEN "done" ELSE "run"
    /\ UNCHANGED <<n_ctx, query>>
    /\ UNCHANGED <<apply, process_all, prompt_len, fate, run, processed, startup, docs, failed, store, fetched, patchSent, res,
                   parserVars, patchVars, promptVars>>

\* process_document(d, params).await returns Ok or Err (main.rs:251-255)
PipelineReturns(d, status) ==
    /\ phase = "run"
    /\ st[d] \in InFlightStages
    /\ Resolve(d, status)
    /\ UNCHANGED <<n_ctx, query>>
    /\ UNCHANGED <<apply, process_all, prompt_len, fate, run, processed, startup, docs, store, fetched, patchSent, res,
                   parserVars, patchVars, promptVars>>

(***************************************************************************)
(* Specifications                                                          *)
(***************************************************************************)
\* a whole run over a store of NumDocs documents
Init ==
    /\ phase = "start"
    /\ apply \in BOOLEAN
    /\ process_all \in BOOLEAN
    /\ startup = NoStartup
    /\ docs = <<>>
    /\ next = 1
    /\ st = [d \in 1..NumDocs |-> "none"]
    /\ failed = [d \in 1..NumDocs |-> 0]
    /\ store = [d \in 1..NumDocs |-> InitialDoc(d)]
    /\ fetched = [d \in 1..NumDocs |-> NoDoc]
    /\ patchSent = [d \in 1..NumDocs |-> NoCall]
    /\ res = [d \in 1..NumDocs |-> NoRes]
    /\ n_ctx = 0
    /\ prompt_len = RunPromptLen
    /\ query = [d \in 1..NumDocs |-> NoQuery]
    /\ fate = <<>>
    /\ run = 1
    /\ processed = {}
    /\ ptext = <<>>
    /\ assembled = NoQuery
    /\ ParserIdle
    /\ PatchIdle

Next ==
    \/ \E c \in {"unasked", "yes", "no", "error"} : Confirm(c)
    \/ \E r \in {"found", "missing", "error"} : LookupField(r)
    \/ \E r \in {"found", "missing", "error"} : LookupTag(r)
    \/ \E ok \in BOOLEAN : ListDocuments(ok)
    \/ \E ok \in BOOLEAN, n \in CtxSizes : SelectModel(ok, n)
    \/ \E d \in DOMAIN st, ok \in BOOLEAN : FetchReturns(d, ok)
    \/ \E d \in DOMAIN st, resp \in Responses : CompletionReturns(d, resp)
    \/ \E d \in DOMAIN st, ok \in BOOLEAN, applied \in BOOLEAN : PatchReturns(d, ok, applied)

Spec == Init /\ [][Next]_vars

\* the fan-out alone, over FanDocs ids, from the creation of the stream
InitFanOut ==
    /\ phase = "stream"
    /\ apply = FALSE
    /\ process_all = FALSE
    /\ startup = [confirmation |-> "unasked", field |-> "found", tag |-> "found"]
    /\ docs = Sort(1..FanDocs)
    /\ next = 1
    /\ st = [d \in 1..FanDocs |-> "pending"]
    /\ failed = [d \in 1..FanDocs |-> 0]
    /\ store = [d \in 1..FanDocs |-> InitialDoc(1)]
    /\ fetched = [d \in 1..FanDocs |-> NoDoc]
    /\ patchSent = [d \in 1..FanDocs |-> NoCall]
    /\ res = [d \in 1..FanDocs |-> NoRes]
    /\ query = [d \in 1..FanDocs |-> NoQuery]
    /\ fate = <<>>
    /\ run = 1
    /\ processed = {}
    /\ PromptIdle
    /\ ParserIdle
    /\ PatchIdle

NextFanOut ==
    \/ StreamStart
    \/ \E d \in DOMAIN st, status \in Finished : PipelineReturns(d, status)

SpecFanOut == InitFanOut /\ [][NextFanOut]_vars

\* outcomes of the pipelines fixed in advance: none fails, all fail, every
\* second one, only the first, only the last, all of the first fill of the buffer
Fates ==
    { [d \in 1..FanDocs |-> "Done"],
      [d \in 1..FanDocs |-> "Failed"],
      [d \in 1..FanDocs |-> IF d % 2 = 1 THEN "Failed" ELSE "Done"],
      [d \in 1..FanDocs |-> IF d = 1 THEN "Failed" ELSE "Done"],
      [d \in 1..FanDocs |-> IF d = FanDocs THEN "Failed" ELSE "Done"],
      [d \in 1..FanDocs |-> IF d <= BUFFER THEN "Failed" ELSE "Done"] }

InitFair ==
    /\ phase = "stream"
    /\ apply = FALSE
    /\ process_all = FALSE
    /\ startup = [confirmation |-> "unasked", field |-> "found", tag |-> "found"]
    /\ docs = Sort(1..FanDocs)
    /\ next = 1
    /\ st = [d \in 1..FanDocs |-> "pending"]
    /\ failed = [d \in 1..FanDocs |-> 0]
    /\ store = [d \in 1..FanDocs |-> InitialDoc(1)]
    /\ fetched = [d \in 1..FanDocs |-> NoDoc]
    /\ patchSent = [d \in 1..FanDocs |-> NoCall]
    /\ res = [d \in 1..FanDocs |-> NoRes]
    /\ query = [d \in 1..FanDocs |-> NoQuery]
    /\ fate \in Fates
    /\ run = 1
    /\ processed = {}
    /\ PromptIdle
    /\ ParserIdle
    /\ PatchIdle

NextFair ==
    \/ StreamStart
    \/ \E d \in DOMAIN st : PipelineReturns(d, fate[d])

\* the fan-out with every awaited call returning at last: the stream is polled
\* when it is created, and each started pipeline resolves
SpecFair ==
    /\ InitFair
    /\ [][NextFair]_vars
    /\ WF_vars(StreamStart)
    /\ \A d \in 1..FanDocs : WF_vars(PipelineReturns(d, fate[d]))

\* runs of the program one after the other on the same store
MaxRuns == 2
\* documents of the store when runs are repeated
RunDocs == 2

\* main_impl is entered again (main.rs:189) on the store as the last run left
\* it; the flags are those of the new command line
Restart(a, all) ==
    /\ phase \in {"done", "fatal"}
    /\ run < MaxRuns
    /\ run' = run + 1
    /\ processed' = processed \cup
                       (IF apply /\ phase = "done" THEN {d \in DOMAIN st : st[d] = "Done"} ELSE {})
    /\ phase' = "start"
    /\ apply' = a
    /\ process_all' = all
    /\ startup' = NoStartup
    /\ docs' = <<>>
    /\ next' = 1
    /\ st' = [d \in DOMAIN store |-> "none"]
    /\ failed' = [d \in DOMAIN store |-> 0]
    /\ fetched' = [d \in DOMAIN store |-> NoDoc]
    /\ patchSent' = [d \in DOMAIN store |-> NoCall]
    /\ res' = [d \in DOMAIN store |-> NoRes]
    /\ query' = [d \in DOMAIN store |-> NoQuery]
    /\ n_ctx' = 0
    /\ UNCHANGED <<store, prompt_len, fate, parserVars, patchVars, promptVars>>

InitRuns ==
    /\ phase = "start"
    /\ apply \in BOOLEAN
    /\ process_all \in BOOLEAN
    /\ startup = NoStartup
    /\ docs = <<>>
    /\ next = 1
    /\ st = [d \in 1..RunDocs |-> "none"]
    /\ failed = [d \in 1..RunDocs |-> 0]
    /\ store = [d \in 1..RunDocs |-> InitialDoc(d)]
    /\ fetched = [d \in 1..RunDocs |-> NoDoc]
    /\ patchSent = [d \in 1..RunDocs |-> NoCall]
    /\ res = [d \in 1..RunDocs |-> NoRes]
    /\ n_ctx = 0
    /\ prompt_len = RunPromptLen
    /\ query = [d \in 1..RunDocs |-> NoQuery]
    /\ fate = <<>>
    /\ run = 1
    /\ processed = {}
    /\ ptext = <<>>
    /\ assembled = NoQuery
    /\ ParserIdle
    /\ PatchIdle

\* the steps of Next with the startup calls succeeding or refused by the user,
\* one context size and two replies
NextRuns ==
    \/ \E c \in {"unasked", "yes", "no"} : Confirm(c)
    \/ LookupField("found")
    \/ LookupTag("found")
    \/ ListDocuments(TRUE)
    \/ SelectModel(TRUE, 22)
    \/ \E d \in DOMAIN st, ok \in BOOLEAN : FetchReturns(d, ok)
    \/ \E d \in DOMAIN st, resp \in RunResponses : CompletionReturns(d, resp)
    \/ \E d \in DOMAIN st, ok \in BOOLEAN, applied \in BOOLEAN : PatchReturns(d, ok, applied)
    \/ \E a \in BOOLEAN, all \in BOOLEAN : Restart(a, all)

SpecRuns == InitRuns /\ [][NextRuns]_vars

\* Output::from_str on every reply of ReplyInputs
InitParser ==
    /\ OrchIdle
    /\ PromptIdle
    /\ PatchIdle
    /\ s \in ReplyInputs
    /\ parsed = [done |-> FALSE, out |-> NoOutput]

NextParser == Parse

SpecParser == InitParser /\ [][NextParser]_vars

\* patch construction on every document of PatchDocs and output of PatchOutputs
InitPatch ==
    /\ OrchIdle
    /\ PromptIdle
    /\ ParserIdle
    /\ pstage = "fetched"
    /\ pdoc \in PatchDocs
    /\ pout \in PatchOutputs
    /\ patch1 = NoPatch
    /\ pdoc2 = NoDoc
    /\ patch2 = NoPatch

NextPatch ==
    \/ PatchBuild
    \/ PatchApply
    \/ PatchRebuild

SpecPatch == InitPatch /\ [][NextPatch]_vars

\* prompt assembly on every text of PromptTexts, context size and prompt length
InitPrompt ==
    /\ OrchIdle
    /\ ParserIdle
    /\ PatchIdle
    /\ n_ctx \in PromptCtxSizes
    /\ prompt_len \in 0..MaxPromptLen
    /\ ptext \in PromptTexts
    /\ assembled = NoQuery

NextPrompt == Assemble

SpecPrompt == InitPrompt /\ [][NextPrompt]_vars

(***************************************************************************)
(* Properties                                                              *)
(***************************************************************************)
Submitted == {docs[i] : i \in DOMAIN docs}
FailedIds == {d \in DOMAIN failed : failed[d] > 0}

\* a call of the pipeline itself returned an error, or its reply did not parse
OwnFailure(r) ==
    \/ r.fetch = "err"
    \/ r.completion \in {"err", "nochoice"}
    \/ r.completion = "ok" /\ ~from_str(r.text).ok
    \/ r.patch = "err"

\* the pipeline went through every stage the mode asks for
RanThrough(r) ==
    /\ r.fetch = "ok"
    /\ r.completion = "ok"
    /\ from_str(r.text).ok
    /\ apply => r.patch = "ok"

\* C1: at the end of the run the failure list holds exactly the ids whose
\* pipeline failed at some stage, each once; every other submitted id is Done
\* after all its stages; and no error of a document makes main_impl fail.
C1_FailureListExact ==
    /\ phase = "done" =>
         /\ FailedIds = {d \in Submitted : OwnFailure(res[d])}
         /\ \A d \in DOMAIN failed : failed[d] <= 1
         /\ \A d \in Submitted \ FailedIds : st[d] = "Done" /\ RanThrough(res[d])
    /\ phase = "fatal" => \A d \in DOMAIN res : res[d] = NoRes

C1_Witness ==
    /\ phase = "done"
    /\ \E d, e \in Submitted : failed[d] = 1 /\ res[d].completion = "ok" /\ st[e] = "Done"

\* C2: the pipelines that issued their fetch and have not resolved are never
\* more than the limit of buffer_unordered.
C2_AtMostLimitInFlight == Cardinality(InFlight(st)) <= BUFFER

C2_Witness ==
    /\ Cardinality(InFlight(st)) = BUFFER
    /\ next > Len(docs)
    /\ \E d \in DOMAIN st : st[d] \in Finished

\* C3: main_impl is past the collect() only when every submitted id is Done or
\* Failed.
C3_DoneOnlyWhenAllFinished ==
    phase = "done" => \A d \in Submitted : st[d] \in Finished

C3_Witness ==
    /\ phase = "done"
    /\ Len(docs) > BUFFER
    /\ FailedIds # {}
    /\ FailedIds # Submitted

\* the patch_document call a pipeline issues, from what its own calls returned
ExpectedCall(r) ==
    IF apply /\ r.fetch = "ok" /\ r.completion = "ok" /\ from_str(r.text).ok
    THEN [sent |-> TRUE, payload |-> BuildPatch(r.doc, from_str(r.text))]
    ELSE NoCall

\* C4: the state of a pipeline is a function of what its own calls returned:
\* it is Failed only after a failure of its own, Done only after all its own
\* stages, not failed while pending or in flight, and the patch it sends is
\* built from its own fetch and its own reply.
C4_OutcomeFromOwnResults ==
    \A d \in DOMAIN st :
        /\ st[d] = "Failed" => OwnFailure(res[d])
        /\ st[d] = "Done" => RanThrough(res[d])
        /\ st[d] \in InFlightStages \cup {"pending", "none"} => ~OwnFailure(res[d])
        /\ patchSent[d] = ExpectedCall(res[d])

C4_Witness ==
    \E d, e \in DOMAIN st :
        /\ st[d] = "Failed"
        /\ st[e] = "Done"
        /\ patchSent[e].sent
        /\ d < e

\* C5: in a dry run no patch_document call is issued and the store keeps the
\* title, tags and custom fields it had at the start.
C5_DryRunWritesNothing ==
    ~apply => \A d \in DOMAIN store : ~patchSent[d].sent /\ store[d] = InitialDoc(d)

C5_Witness ==
    /\ ~apply
    /\ phase = "done"
    /\ \E d \in Submitted : st[d] = "Done" /\ from_str(res[d].text).has_amount

\* the pipeline failed at the fetch, at the completion request or at parsing
EarlyFailure(r) ==
    \/ r.fetch = "err"
    \/ r.completion \in {"err", "nochoice"}
    \/ r.completion = "ok" /\ (Len(Lines(r.text)) # 2 \/ ~from_str(r.text).ok)

\* C6: in apply mode a document that failed at the fetch, the completion
\* request or the parsing of the reply is in the failure list, no
\* patch_document call was issued for it and the store still holds it as at
\* the start.
C6_EarlyFailureWritesNothing ==
    apply => \A d \in DOMAIN st :
                EarlyFailure(res[d]) =>
                    /\ failed[d] = 1
                    /\ ~patchSent[d].sent
                    /\ store[d] = InitialDoc(d)

C6_Witness ==
    /\ apply
    /\ \E d, e \in Submitted :
          /\ res[d].text = ThreeLines
          /\ st[d] = "Failed"
          /\ patchSent[e].sent

\* the confirmation was declined, or a lookup found no tag or no field
StartupFailed ==
    \/ startup.confirmation = "no"
    \/ startup.field = "missing"
    \/ startup.tag = "missing"

\* C7: after a declined confirmation or a lookup without result the run is
\* over and no document was fetched, completed or patched.
C7_FatalBeforeAnyDocument ==
    StartupFailed =>
        /\ phase = "fatal"
        /\ \A d \in DOMAIN st :
              /\ st[d] \in {"none", "pending"}
              /\ res[d] = NoRes
              /\ ~patchSent[d].sent

C7_Witness ==
    /\ phase = "fatal"
    /\ startup.confirmation = "yes"
    /\ startup.field = "found"
    /\ startup.tag = "missing"

\* a decimal literal: sign, digits, point, exponent; no words
IsDecimal(t) ==
    /\ t # <<>>
    /\ LET rest == IF t[1] \in {"+", "-"} THEN SubSeq(t, 2, Len(t)) ELSE t
       IN  rest # <<>> /\ ParseNumber(rest, FALSE).ok

\* C8: the parser fails on every reply that has not exactly two lines and on
\* every two-line reply whose second line is neither "-" nor a decimal; it
\* returns title "Some Title" without amount for "Some Title\n-" and with
\* amount 12.34 for "Some Title\n12.34"; a returned title is line 1.
C8_ParserContract ==
    parsed.done =>
        LET lines == Lines(s)
        IN  /\ Len(lines) # 2 => ~parsed.out.ok
            /\ (Len(lines) = 2 /\ lines[2] # <<"-">> /\ ~IsDecimal(lines[2])) => ~parsed.out.ok
            /\ s = SomeTitle \o <<NL, "-">> =>
                  parsed.out = [ok |-> TRUE, title |-> SomeTitle, has_amount |-> FALSE,
                                amount |-> NoFloat]
            /\ s = SomeTitle \o <<NL, "1", "2", ".", "3", "4">> =>
                  parsed.out = [ok |-> TRUE, title |-> SomeTitle, has_amount |-> TRUE,
                                amount |-> Finite(FALSE, 1234, 0 - 2)]
            /\ parsed.out.ok => parsed.out.title = lines[1]

\* C9: the patch built from the document as the store holds it after the
\* first patch equals the first patch.
C9_PatchIdempotent ==
    pstage = "rebuilt" => patch2 = patch1

C9_Witness ==
    /\ pstage = "rebuilt"
    /\ pout.has_amount
    /\ \E i \in DOMAIN pdoc.custom_fields : pdoc.custom_fields[i].field = field_id
    /\ \E i \in DOMAIN pdoc.tags : pdoc.tags[i] = tag_id

NotAmount(f) == f.field # field_id

\* C10: every custom field of the fetched document that is not the amount
\* field is in the patch with its value; the other fields of the patch are
\* those of the document, in their order.
C10_OtherFieldsKept ==
    pstage # "fetched" =>
        /\ \A i \in DOMAIN pdoc.custom_fields :
              NotAmount(pdoc.custom_fields[i]) =>
                  \E j \in DOMAIN patch1.custom_fields :
                      patch1.custom_fields[j] = pdoc.custom_fields[i]
        /\ SelectSeq(patch1.custom_fields, NotAmount) = SelectSeq(pdoc.custom_fields, NotAmount)

C10_Witness ==
    /\ pstage = "built"
    /\ pout.has_amount
    /\ \E i, j \in DOMAIN pdoc.custom_fields :
          /\ pdoc.custom_fields[i].field = field_id
          /\ pdoc.custom_fields[j].field = OtherField
          /\ i < j

\* [-] digits . digit digit
IsTwoDecimals(t) ==
    LET body == IF t # <<>> /\ t[1] = "-" THEN SubSeq(t, 2, Len(t)) ELSE t
        n == Len(body)
    IN  /\ n >= 4
        /\ body[n - 2] = "."
        /\ \A i \in (1..n) \ {n - 2} : body[i] \in Digits

\* the hundredths a two-decimal text denotes
TwoDecimalsValue(t) ==
    LET body == IF t[1] = "-" THEN SubSeq(t, 2, Len(t)) ELSE t
        n == Len(body)
    IN  DigitsValue(body, 1, n - 3) * 100 + DigitsValue(body, n - 1, 2)

\* h hundredths is the amount v rounded to two decimals
RoundsTo(v, h) ==
    IF v.exp10 + 2 >= 0 THEN h = v.mant * Pow10(v.exp10 + 2)
    ELSE LET k == 0 - (v.exp10 + 2)
             diff == v.mant - h * Pow10(k)
         IN  2 * diff <= Pow10(k) /\ 0 - 2 * diff <= Pow10(k)

AmountEntries(fs) == SelectSeq(fs, LAMBDA f : f.field = field_id)

\* C11: with an amount, the patch has exactly one entry for the amount field;
\* its value is the currency followed by the amount written with two
\* decimals; the spec's scenario gives title "Invoice 42", no tag and the one
\* field "CHF42.00".
C11_AmountEntry ==
    (pstage # "fetched" /\ pout.has_amount) =>
        LET es == AmountEntries(patch1.custom_fields)
        IN  /\ Len(es) = 1
            /\ Len(es[1].value) > Len(currency)
            /\ SubSeq(es[1].value, 1, Len(currency)) = currency
            /\ LET num == SubSeq(es[1].value, Len(currency) + 1, Len(es[1].value))
               IN  /\ IsTwoDecimals(num)
                   /\ pout.amount.cls = "finite"
                   /\ RoundsTo(pout.amount, TwoDecimalsValue(num))
                   /\ (num[1] = "-") = pout.amount.neg
            /\ (pdoc = InvoiceDoc /\ pout.title = Invoice42 /\ pout.amount = Finite(FALSE, 4200, 0 - 2)) =>
                  patch1 = [title |-> Invoice42, tags |-> <<>>,
                            custom_fields |-> << [field |-> field_id,
                                                   value |-> <<"C", "H", "F", "4", "2", ".", "0", "0">>] >>]


\* C12: a text of at most max_doc_size characters is sent unmodified; a longer
\* text is sent as its prefix of exactly max_doc_size characters (whole
\* characters only, the text being a sequence of characters) with a warning.
C12_TruncateToBudget ==
    assembled.sent =>
        IF Len(ptext) <= assembled.max
        THEN assembled.user = ptext
        ELSE /\ assembled.user = SubSeq(ptext, 1, assembled.max)
             /\ assembled.warned


\* C13: the stages of one document follow each other: the completion request is
\* issued only after the fetch of that document succeeded, the reply is parsed
\* only after the completion returned, the update is issued only after the
\* reply parsed, and a stage that has not been issued has returned nothing.
C13_StagesInOrder ==
    \A d \in DOMAIN st :
        /\ query[d].sent => res[d].fetch = "ok"
        /\ res[d].completion # "none" => query[d].sent
        /\ patchSent[d].sent => res[d].completion = "ok" /\ from_str(res[d].text).ok
        /\ res[d].patch # "none" => patchSent[d].sent
        /\ st[d] \in {"none", "pending", "fetch"} =>
               res[d] = NoRes /\ ~query[d].sent /\ ~patchSent[d].sent
        /\ st[d] = "completion" =>
               res[d].fetch = "ok" /\ res[d].completion = "none" /\ ~patchSent[d].sent
        /\ st[d] = "patch" => patchSent[d].sent /\ res[d].patch = "none"

C13_Witness ==
    \E d, e \in DOMAIN st :
        /\ st[d] = "Done" /\ res[d].patch = "ok"
        /\ st[e] = "Failed" /\ res[e].fetch = "err"


\* C14: when every call returns and scheduling is fair, every submitted id
\* ends Done or Failed and the run completes, with more ids than the limit and
\* whatever pipelines fail.
C14_RunTerminates ==
    <>(phase = "done" /\ \A d \in Submitted : st[d] \in Finished)

C14_Witness ==
    /\ phase = "done"
    /\ Len(docs) > BUFFER
    /\ \E d, e \in Submitted : st[d] = "Done" /\ st[e] = "Failed"


\* C15 as stated: when the parsed amount is absent, the custom fields of the
\* patch are those of the fetched document without any entry for the amount
\* field.
C15_AmountRemovedWhenAbsent ==
    (pstage # "fetched" /\ ~pout.has_amount) =>
        /\ patch1.custom_fields = SelectSeq(pdoc.custom_fields, NotAmount)
        /\ AmountEntries(patch1.custom_fields) = <<>>

\* C15, amended: when the parsed amount is absent, the custom fields of the
\* patch are the custom fields of the fetched document unchanged: an entry for
\* the amount field is kept with its value, and none is added.
C15_FieldsUnchangedWhenAbsent ==
    (pstage # "fetched" /\ ~pout.has_amount) =>
        /\ patch1.custom_fields = pdoc.custom_fields
        /\ AmountEntries(patch1.custom_fields) = AmountEntries(pdoc.custom_fields)

C15_Witness ==
    /\ pstage = "built"
    /\ pout.ok
    /\ ~pout.has_amount
    /\ AmountEntries(pdoc.custom_fields) # <<>>
    /\ \E i \in DOMAIN pdoc.custom_fields : NotAmount(pdoc.custom_fields[i])


\* C16: every output the parser returns successfully has a non-empty title,
\* also for a reply whose first line is empty.
C16_TitleNonEmpty ==
    (parsed.done /\ parsed.out.ok) => parsed.out.title # <<>>


\* C17: the assembled prompt meets the estimated token budget,
\* (len(system) + len(user)) / 2.5 + 50 <= n_ctx, in integers
\* 2 * (len(system) + len(user)) + 250 <= 5 * n_ctx.
C17_EstimateWithinContext ==
    assembled.sent =>
        CharPerTokenDen * (prompt_len + ByteLen(assembled.user))
          + CharPerTokenNum * max_output_tokens <= CharPerTokenNum * n_ctx


\* n_ctx * 2.5 - len(system) - 50 <= 0, doubled
BudgetExhausted ==
    CharPerTokenNum * n_ctx - CharPerTokenDen * prompt_len - CharPerTokenDen * max_output_tokens <= 0

\* C18: when the computed budget is zero or negative the assembly does not
\* fail: the budget is taken as 0, the user message is the empty text, and the
\* completion request of the document is issued.
C18_NoBudgetSendsEmpty ==
    \A d \in DOMAIN st :
        (res[d].fetch = "ok" /\ BudgetExhausted) =>
            /\ query[d].sent
            /\ query[d].max = 0
            /\ query[d].user = <<>>


Unfinished == {d \in Submitted : st[d] \notin Finished}
NotStarted == {d \in Submitted : st[d] = "pending"}

\* C20: after every step of the stream the pipelines in flight are
\* min(BUFFER, ids not yet Done or Failed): exactly BUFFER while an id has not
\* been started, a freed slot being refilled in the same step; ids are
\* admitted in ascending order, so the ids not started are the last of docs.
C20_WorkConserving ==
    phase \in {"run", "done"} =>
        /\ Cardinality(InFlight(st)) =
              (IF Cardinality(Unfinished) < BUFFER THEN Cardinality(Unfinished) ELSE BUFFER)
        /\ NotStarted # {} => Cardinality(InFlight(st)) = BUFFER
        /\ \A i, j \in DOMAIN docs : i < j => docs[i] < docs[j]
        /\ \A i \in DOMAIN docs : st[docs[i]] = "pending" <=> i >= next

C20_Witness ==
    /\ phase = "run"
    /\ \E d \in Submitted : st[d] \in Finished
    /\ st[docs[Len(docs)]] \in InFlightStages
    /\ Len(docs) > BUFFER
    /\ Cardinality(InFlight(st)) = BUFFER

====
